---- MODULE Spec2Model ----
(***************************************************************************)
(* Bio-Classifier: the two-stage classification pipeline                   *)
(* (app/model_classification.py, classify_profiles), the Instruction Store *)
(* (the module-level _current_prompt / _current_criteria and the persisted *)
(* record classification_prompt.json) and the /classify, /prompt and       *)
(* /prompt/reset handlers of app/app.py.                                   *)
(*                                                                         *)
(* Text is modelled by TLA+ strings and the Python string operations       *)
(* (lower, strip, split, `in`, re.sub, the BIBLE_PATTERN regex, json       *)
(* string escaping) by operators computed character by character.          *)
(* TLA+ strings are ASCII, so the few non-ASCII code points the source     *)
(* uses are written with otherwise unused ASCII punctuation characters     *)
(* (DAGGER, LATIN_CROSS, VS16, EN_DASH, LONE_SURROGATE below).  Like the   *)
(* code points they stand for, these are neither \w nor \s for the regex   *)
(* and have no lower-case form.                                            *)
(***************************************************************************)
EXTENDS Integers, Sequences, FiniteSets, TLC

(***************************************************************************)
(* Bounds of the model                                                     *)
(***************************************************************************)
\* longest batch of bios enumerated exhaustively
MaxItems == 3
\* longest reply text (in characters) enumerated exhaustively
MaxReplyLen == 5

\* requests the server holds at one time without having begun to serve them
MaxInFlight == 2

(***************************************************************************)
(* Characters                                                              *)
(***************************************************************************)
DAGGER == "+"          \* U+2020, the quick keyword of line 136
LATIN_CROSS == "^"     \* U+271D, first code point of the cross emoji
VS16 == "~"            \* U+FE0F, variation selector of the cross emoji
EN_DASH == "|"         \* U+2013, used in DEFAULT_CRITERIA_TEXT
LONE_SURROGATE == "#"  \* U+D800, a str code point UTF-8 cannot encode
None == "<None>"       \* Python's None; distinct from every text used

UPPERCASE == "ABCDEFGHIJKLMNOPQRSTUVWXYZ"
LOWERCASE == "abcdefghijklmnopqrstuvwxyz"
DIGITS == "0123456789"

Chr(s, i) == SubSeq(s, i, i)

CharsOf(s) == {Chr(s, i) : i \in 1..Len(s)}

\* str.isspace() / the regex class \s, over the characters used here
WHITESPACE == {" ", "\n", "\t"}

\* the regex class \w
WORD_CHARS == CharsOf(UPPERCASE) \cup CharsOf(LOWERCASE) \cup CharsOf(DIGITS) \cup {"_"}

Min(S) == CHOOSE m \in S : \A n \in S : m <= n
Max(S) == CHOOSE m \in S : \A n \in S : m >= n

LowerChar(c) ==
    IF c \in CharsOf(UPPERCASE)
    THEN Chr(LOWERCASE, CHOOSE i \in 1..Len(UPPERCASE) : Chr(UPPERCASE, i) = c)
    ELSE c

RECURSIVE LowerRange(_, _, _)
LowerRange(s, lo, hi) ==
    IF lo > hi THEN ""
    ELSE IF lo = hi THEN LowerChar(Chr(s, lo))
    ELSE LET mid == (lo + hi) \div 2
         IN  LowerRange(s, lo, mid) \o LowerRange(s, mid + 1, hi)

\* str.lower()
lower(s) == LowerRange(s, 1, Len(s))

\* str.strip()
strip(s) ==
    LET keep == {i \in 1..Len(s) : Chr(s, i) \notin WHITESPACE}
    IN  IF keep = {} THEN "" ELSE SubSeq(s, Min(keep), Max(keep))

\* str.startswith(prefix)
startswith(s, prefix) ==
    Len(s) >= Len(prefix) /\ SubSeq(s, 1, Len(prefix)) = prefix

\* Python's `k in s` for strings
Contains(s, k) ==
    \E i \in 1..(Len(s) - Len(k) + 1) : SubSeq(s, i, i + Len(k) - 1) = k

\* str.split() with no separator: the maximal runs of non-whitespace
RECURSIVE split(_)
split(s) ==
    LET keep == {i \in 1..Len(s) : Chr(s, i) \notin WHITESPACE}
    IN  IF keep = {} THEN <<>>
        ELSE LET b == Min(keep)
                 stops == {j \in b..Len(s) : Chr(s, j) \in WHITESPACE}
                 e == IF stops = {} THEN Len(s) + 1 ELSE Min(stops)
             IN  <<SubSeq(s, b, e - 1)>> \o split(SubSeq(s, e, Len(s)))

RECURSIVE SubNonWordRange(_, _, _)
SubNonWordRange(s, lo, hi) ==
    IF lo > hi THEN ""
    ELSE IF lo = hi
         THEN (IF Chr(s, lo) \in WORD_CHARS \cup WHITESPACE THEN Chr(s, lo) ELSE " ")
    ELSE LET mid == (lo + hi) \div 2
         IN  SubNonWordRange(s, lo, mid) \o SubNonWordRange(s, mid + 1, hi)

\* re.sub(r"[^\w\s]", " ", s)
re_sub_nonword(s) == SubNonWordRange(s, 1, Len(s))

\* "".join(parts) / sep.join(parts)
RECURSIVE join(_, _)
join(sep, parts) ==
    IF parts = <<>> THEN ""
    ELSE IF Len(parts) = 1 THEN parts[1]
    ELSE parts[1] \o sep \o join(sep, Tail(parts))

(***************************************************************************)
(* Lexical Matcher: the keyword sets and BIBLE_PATTERN                     *)
(***************************************************************************)
CHRISTIAN_WORDS ==
    {"jesus", "christ", "christian", "god", "lord", "bible",
     "believer", "disciple", "faith", "saved", "born again",
     "church", "worship"}

BIBLE_BOOKS ==
    {"genesis", "exodus", "leviticus", "numbers", "deuteronomy",
     "joshua", "judges", "ruth", "samuel", "kings", "chronicles", "ezra", "nehemiah", "esther",
     "job", "psalm", "psalms", "proverbs", "ecclesiastes", "song", "songs", "canticles",
     "isaiah", "jeremiah", "lamentations", "ezekiel", "daniel",
     "hosea", "joel", "amos", "obadiah", "jonah", "micah", "nahum",
     "habakkuk", "zephaniah", "haggai", "zechariah", "malachi",
     "matthew", "mark", "luke", "john", "acts", "romans",
     "corinthians", "galatians", "ephesians", "philippians", "colossians",
     "thessalonians", "timothy", "titus", "philemon", "hebrews",
     "james", "peter", "jude", "revelation", "rev"}

QUICK_KEYWORDS ==
    {DAGGER, "cross", "amen", "agtg", "jesusfreak", "bibleverse"}
        \cup CHRISTIAN_WORDS \cup BIBLE_BOOKS

\* the regex assertion \b at the gap before position p of s
WordBoundary(s, p) ==
    LET before == p > 1 /\ Chr(s, p - 1) \in WORD_CHARS
        after == p <= Len(s) /\ Chr(s, p) \in WORD_CHARS
    IN  before # after

\* BIBLE_PATTERN.search(s): \b(book)(?:'s|s)?\b, case-insensitive
BIBLE_PATTERN_search(s) ==
    LET low == lower(s)    \* re.I: compare case-insensitively
    IN  \E book \in BIBLE_BOOKS :
          \E i \in 1..(Len(s) - Len(book) + 1) :
            /\ WordBoundary(s, i)
            /\ SubSeq(low, i, i + Len(book) - 1) = book
            /\ \E suffix \in {"'s", "s", ""} :
                 LET e == i + Len(book) + Len(suffix)
                 IN  /\ e - 1 <= Len(s)
                     /\ SubSeq(low, i + Len(book), e - 1) = suffix
                     /\ WordBoundary(s, e)

\* lines 159-162
has_christian_keywords(bio) ==
    LET low == lower(bio)
    IN  \/ \E k \in QUICK_KEYWORDS : Contains(low, k)
        \/ BIBLE_PATTERN_search(bio)

(***************************************************************************)
(* Instruction Store: constants and pure helpers                           *)
(***************************************************************************)
DEFAULT_PROMPT_HEADER ==
    "For each numbered Instagram bio below, reply **yes** or **no**.\n\n"

DEFAULT_PROMPT_FOOTER ==
    "\nIf the bio does **not** clearly show no affiliation with what we desire, reply **no**.\n\n"
    \o "Return a single space-separated list of yes/no in the same order as the bios."

DEFAULT_CRITERIA_TEXT ==
    "**Say yes** if the bio contains an explicit Christian signal " \o EN_DASH
    \o " e.g. the words Jesus, Christ, Christian, Bible, a Scripture reference (John 3:16, 1 Cor 13:4-8, etc.), "
    \o LATIN_CROSS \o VS16
    \o " cross emoji, 'saved by grace', 'follower of Christ', or similar.\n"
    \o "Jesus, Christ, Christian, Bible, a Scripture reference (John 3:16, 1 Cor 13:4-8, etc.), "
    \o LATIN_CROSS \o VS16
    \o " cross emoji, 'saved by grace', 'follower of Christ', or similar.\n"

_build_full_prompt(criteria_text) ==
    DEFAULT_PROMPT_HEADER \o criteria_text \o "\n" \o DEFAULT_PROMPT_FOOTER

\* str(Path(__file__).stat().st_mtime): the same text on every save
LAST_UPDATED == "1700000000.0"

(***************************************************************************)
(* The persisted record.  A record file is                                 *)
(*   [kind |-> "missing"]  no file at PROMPT_FILE_PATH,                    *)
(*   [kind |-> "invalid"]  a file that json.load rejects (garbage, an      *)
(*                         empty or a partially written file),             *)
(*   [kind |-> "array"]    valid JSON that is not an object,               *)
(*   [kind |-> "object"]   a JSON object; members maps each key to the     *)
(*                         JSON string literal stored for it.              *)
(***************************************************************************)
NoMembers == [k \in {} |-> ""]

MissingFile == [kind |-> "missing", members |-> NoMembers]
InvalidFile == [kind |-> "invalid", members |-> NoMembers]
ArrayFile == [kind |-> "array", members |-> NoMembers]
ObjectFile(m) == [kind |-> "object", members |-> m]

\* a json encoder that forgets to escape the backslash
JsonEscapeChar_NoBackslash(c) ==
    CASE c = "\"" -> "\\\""
      [] c = "\n" -> "\\n"
      [] c = "\t" -> "\\t"
      [] OTHER -> c

\* json.encoder: the escape of one character (ensure_ascii=False)
JsonEscapeChar(c) ==
    CASE c = "\"" -> "\\\""
      [] c = "\\" -> "\\\\"
      [] c = "\n" -> "\\n"
      [] c = "\t" -> "\\t"
      [] OTHER -> c

RECURSIVE JsonEscapeRange(_, _, _)
JsonEscapeRange(s, lo, hi) ==
    IF lo > hi THEN ""
    ELSE IF lo = hi THEN JsonEscapeChar(Chr(s, lo))
    ELSE LET mid == (lo + hi) \div 2
         IN  JsonEscapeRange(s, lo, mid) \o JsonEscapeRange(s, mid + 1, hi)

\* json.dump of a str value: the string literal written to the file
json_dump_str(s) == "\"" \o JsonEscapeRange(s, 1, Len(s)) \o "\""

\* number of consecutive backslashes that end right before position i
RECURSIVE BackslashRun(_, _)
BackslashRun(t, i) ==
    IF i > 1 /\ Chr(t, i - 1) = "\\" THEN 1 + BackslashRun(t, i - 1) ELSE 0

\* json.decoder: what position i of the body of a string literal decodes to
JsonUnescapeAt(t, i) ==
    LET c == Chr(t, i)
        escaped == BackslashRun(t, i) % 2 = 1
    IN  IF escaped
        THEN CASE c = "n" -> "\n"
               [] c = "t" -> "\t"
               [] OTHER -> c
        ELSE IF c = "\\" THEN "" ELSE c

RECURSIVE JsonUnescapeRange(_, _, _)
JsonUnescapeRange(t, lo, hi) ==
    IF lo > hi THEN ""
    ELSE IF lo = hi THEN JsonUnescapeAt(t, lo)
    ELSE LET mid == (lo + hi) \div 2
         IN  JsonUnescapeRange(t, lo, mid) \o JsonUnescapeRange(t, mid + 1, hi)

\* json.load of a string literal
json_load_str(lit) ==
    LET t == SubSeq(lit, 2, Len(lit) - 1)
    IN  JsonUnescapeRange(t, 1, Len(t))

\* open(..., encoding='utf-8') cannot write a lone surrogate
Utf8Encodable(s) == ~Contains(s, LONE_SURROGATE)

\* outcomes of the file system during one save / one read
SaveOutcomes == {"ok", "fails_before_write", "fails_during_write"}
ReadOutcomes == {"ok", "error"}

\* a save that persists the full instruction next to the criteria, as the
\* legacy records did
_save_criteria_to_file_WithPrompt(old_file, criteria_text, io) ==
    IF io = "fails_before_write"
    THEN [file |-> old_file, saved |-> FALSE]
    ELSE IF io = "fails_during_write" \/ ~Utf8Encodable(criteria_text)
    THEN [file |-> InvalidFile, saved |-> FALSE]
    ELSE [file |-> ObjectFile([k \in {"criteria", "prompt", "last_updated"} |->
                        IF k = "criteria" THEN json_dump_str(criteria_text)
                        ELSE IF k = "prompt"
                        THEN json_dump_str(_build_full_prompt(criteria_text))
                        ELSE json_dump_str(LAST_UPDATED)]),
          saved |-> TRUE]

\* _save_criteria_to_file: the file it leaves and the bool it returns.
\* mkdir, stat and open run before anything is written; open(.., 'w')
\* truncates the file, so a failure after it leaves a partial file.
_save_criteria_to_file(old_file, criteria_text, io) ==
    IF io = "fails_before_write"
    THEN [file |-> old_file, saved |-> FALSE]
    ELSE IF io = "fails_during_write" \/ ~Utf8Encodable(criteria_text)
    THEN [file |-> InvalidFile, saved |-> FALSE]
    ELSE [file |-> ObjectFile([k \in {"criteria", "last_updated"} |->
                        IF k = "criteria" THEN json_dump_str(criteria_text)
                        ELSE json_dump_str(LAST_UPDATED)]),
          saved |-> TRUE]

\* the read of the record shared by both loaders: "default" stands for
\* every path that ends in the built-in default (no file, an exception)
ReadFails(f, rd) == f.kind = "invalid" \/ (f.kind # "missing" /\ rd = "error")

\* a loader whose fallback returns the default criteria without the
\* header and the footer
_load_prompt_from_file_BareDefault(f, rd) ==
    IF f.kind = "missing" THEN _build_full_prompt(DEFAULT_CRITERIA_TEXT)
    ELSE IF ReadFails(f, rd) THEN DEFAULT_CRITERIA_TEXT
    ELSE IF f.kind = "object" /\ "criteria" \in DOMAIN f.members
    THEN _build_full_prompt(json_load_str(f.members["criteria"]))
    ELSE IF f.kind = "object" /\ "prompt" \in DOMAIN f.members
    THEN json_load_str(f.members["prompt"])
    ELSE _build_full_prompt(DEFAULT_CRITERIA_TEXT)

\* _load_prompt_from_file
_load_prompt_from_file(f, rd) ==
    IF f.kind = "missing" THEN _build_full_prompt(DEFAULT_CRITERIA_TEXT)
    ELSE IF ReadFails(f, rd) THEN _build_full_prompt(DEFAULT_CRITERIA_TEXT)
    ELSE IF f.kind = "object" /\ "criteria" \in DOMAIN f.members
    THEN _build_full_prompt(json_load_str(f.members["criteria"]))
    ELSE IF f.kind = "object" /\ "prompt" \in DOMAIN f.members
    THEN json_load_str(f.members["prompt"])
    ELSE _build_full_prompt(DEFAULT_CRITERIA_TEXT)

\* a start that leaves _current_criteria at the value of line 82
_load_criteria_from_file_NotLoaded(f, rd) == DEFAULT_CRITERIA_TEXT

\* the module-level load of _current_criteria (lines 82-89)
_load_criteria_from_file(f, rd) ==
    IF f.kind = "missing" THEN DEFAULT_CRITERIA_TEXT
    ELSE IF ReadFails(f, rd) THEN DEFAULT_CRITERIA_TEXT
    ELSE IF f.kind = "object" /\ "criteria" \in DOMAIN f.members
    THEN json_load_str(f.members["criteria"])
    ELSE DEFAULT_CRITERIA_TEXT

(***************************************************************************)
(* classify_profiles: pure helpers                                         *)
(***************************************************************************)
\* str(i) for the small integers used as identifiers and list numbers
IntStr(i) == Chr(DIGITS, i + 1)

\* d[k] = v on a dict
DictSet(d, k, v) == [x \in (DOMAIN d) \cup {k} |-> IF x = k THEN v ELSE d[x]]

\* d.get(k, default)
DictGet(d, k, default) == IF k \in DOMAIN d THEN d[k] ELSE default

EmptyDict == [k \in {} |-> "no"]

EmptyStage1 == [quick_results |-> EmptyDict, unsure_bios |-> <<>>, unsure_indices |-> <<>>]

\* the stage-1 loop (lines 153-170) from item index i (0-based) on
RECURSIVE Stage1Loop(_, _, _)
Stage1Loop(data, i, acc) ==
    IF i >= Len(data) THEN acc
    ELSE LET item == data[i + 1]
             uname == item.username
             bio == strip(IF item.bio = None THEN "" ELSE item.bio)
             clean == strip(re_sub_nonword(bio))
         IN  IF has_christian_keywords(bio)
             THEN Stage1Loop(data, i + 1,
                    [acc EXCEPT !.quick_results = DictSet(@, uname, "yes")])
             ELSE Stage1Loop(data, i + 1,
                    [quick_results |-> DictSet(acc.quick_results, uname, "no"),
                     unsure_bios |-> Append(acc.unsure_bios, clean),
                     unsure_indices |-> Append(acc.unsure_indices, i)])

\* a stage 2 that runs for every batch
Stage2Needed_Always(bios) == TRUE

\* line 173: stage 2 runs only for a non-empty unresolved list
Stage2Needed(bios) == bios # <<>>

\* line 178: the numbered list of the unresolved bios
BuildPayload(bios) ==
    join("\n", [i \in 1..Len(bios) |-> IntStr(i) \o ") " \o bios[i]])

\* line 195: the text sent to the Responses API
BuildInput(prompt_text, bios) == prompt_text \o "\n\n" \o BuildPayload(bios)

IsOutputText(c) == c.is_dict /\ c.type = "output_text"

\* lines 212-217: the output_text chunks of the response's output items
RECURSIVE OutputChunks(_)
OutputChunks(output_items) ==
    IF output_items = <<>> THEN <<>>
    ELSE LET item == Head(output_items)
             parts == IF item.is_dict THEN SelectSeq(item.content, IsOutputText) ELSE <<>>
         IN  [i \in 1..Len(parts) |-> parts[i].text] \o OutputChunks(Tail(output_items))

\* lines 206-220: the plain text of a response
ExtractOutputText(r) ==
    LET direct == strip(IF r.output_text = None THEN "" ELSE r.output_text)
    IN  IF direct # "" THEN direct
        ELSE strip(join("", OutputChunks(r.output)))

\* a length check that only rejects a reply with too many tokens
ValidateLength_TooManyOnly(tokens, n) ==
    IF Len(tokens) > n THEN [i \in 1..n |-> "no"] ELSE tokens

\* lines 225-227: a reply of the wrong length is replaced by all "no"
ValidateLength(tokens, n) ==
    IF Len(tokens) # n THEN [i \in 1..n |-> "no"] ELSE tokens

\* a normalisation that forgets lower()
NormalizeFlag_CaseSensitive(f) ==
    IF startswith(strip(f), "y") THEN "yes" ELSE "no"

\* line 230: one token to "yes" / "no"
NormalizeFlag(f) ==
    IF startswith(lower(strip(f)), "y") THEN "yes" ELSE "no"

\* lines 222-232: the flags of a response for n unresolved bios
ParseFlags(r, n) ==
    LET tokens == split(strip(ExtractOutputText(r)))
        checked == ValidateLength(tokens, n)
    IN  [i \in 1..Len(checked) |-> NormalizeFlag(checked[i])]

\* line 236: the flags after an exception of the remote call
FailedFlags(n) == [i \in 1..n |-> "no"]

\* a write-back that takes the k-th flag for the k-th item of the batch
RECURSIVE UpdateLoop_ByPosition(_, _, _, _, _)
UpdateLoop_ByPosition(data, indices, fl, i, qr) ==
    IF i >= Len(fl) THEN qr
    ELSE LET username == data[i + 1].username
         IN  UpdateLoop_ByPosition(data, indices, fl, i + 1,
                                   DictSet(qr, username, lower(fl[i + 1])))

\* lines 239-242: write the flags back under the items' usernames
RECURSIVE UpdateLoop(_, _, _, _, _)
UpdateLoop(data, indices, fl, i, qr) ==
    IF i >= Len(fl) THEN qr
    ELSE LET original_index == indices[i + 1]
             username == data[original_index + 1].username
         IN  UpdateLoop(data, indices, fl, i + 1, DictSet(qr, username, lower(fl[i + 1])))

\* lines 245-246: attach the verdict to every item
AttachFlags(data, qr) ==
    [i \in 1..Len(data) |->
        [data[i] EXCEPT !.is_christian = DictGet(qr, data[i].username, "no")]]

IsYes(item) == item.is_christian = "yes"

\* a return value that lists the usernames last item first
YesUsernames_Reversed(data) ==
    LET yes == SelectSeq(data, IsYes)
    IN  [i \in 1..Len(yes) |-> yes[Len(yes) + 1 - i].username]

\* lines 248-249: the returned usernames
YesUsernames(data) ==
    LET yes == SelectSeq(data, IsYes)
    IN  [i \in 1..Len(yes) |-> yes[i].username]

(***************************************************************************)
(* /classify: pure helpers                                                 *)
(***************************************************************************)
\* app.py line 29
Payload(bios) ==
    [i \in 1..Len(bios) |->
        [username |-> IntStr(i - 1), bio |-> bios[i], is_christian |-> None]]

\* app.py line 31: a present, non-blank criteria is a per-request override
UsesOverride(r) ==
    r.criteria # None /\ r.criteria # "" /\ strip(r.criteria) # ""

(***************************************************************************)
(* Inputs                                                                  *)
(***************************************************************************)
\* the bios of the example batch: a Scripture reference, no signal, and
\* the cross emoji
ExampleBios ==
    <<"John 3:16 is my favorite verse", "just a dog mom",
      LATIN_CROSS \o VS16 \o " living for Him">>

BioSet == {ExampleBios[i] : i \in 1..Len(ExampleBios)}

SeqsUpTo(S, n) == UNION {[1..k -> S] : k \in 0..n}

\* every batch of at most MaxItems bios, and the example batch
BioBatches == SeqsUpTo(BioSet, MaxItems) \cup {ExampleBios}

\* all texts of at most n characters over the alphabet A
RECURSIVE TextsUpTo(_, _)
TextsUpTo(A, n) ==
    IF n = 0 THEN {""}
    ELSE LET shorter == TextsUpTo(A, n - 1)
         IN  shorter \cup {t \o c : t \in shorter, c \in A}

ReplyAlphabet == {"Y", "n", " "}

\* replies a well-behaved remote capability gives for one to three bios
CommonReplies == {"no", "yes no", "no yes yes"}

\* every text of at most MaxReplyLen characters, and the common replies
ReplyTexts == TextsUpTo(ReplyAlphabet, MaxReplyLen) \cup CommonReplies

OutputTextPart(t) == [is_dict |-> TRUE, type |-> "output_text", text |-> t]
OtherPart == [is_dict |-> TRUE, type |-> "refusal", text |-> "yes"]
DictItem(parts) == [is_dict |-> TRUE, content |-> parts]
ObjectItem == [is_dict |-> FALSE, content |-> <<>>]

\* responses whose output_text is absent or blank: the text, if any, is in
\* the output items
ItemResponses ==
    {[output_text |-> t, output |-> o] :
        t \in {None, " "},
        o \in {<<>>,
               <<ObjectItem>>,
               <<DictItem(<<OtherPart>>)>>,
               <<DictItem(<<OutputTextPart("Yes"), OtherPart>>)>>,
               <<DictItem(<<OutputTextPart("no ")>>), ObjectItem, DictItem(<<OutputTextPart("yes")>>)>>}}

TextResponses(texts) == {[output_text |-> t, output |-> <<>>] : t \in texts}

NoResponse == [output_text |-> None, output |-> <<>>]

NoRequest == [bios |-> <<>>, criteria |-> None]

PipelineRequests == {[bios |-> b, criteria |-> None] : b \in BioBatches}

VARIABLES
    _current_prompt,    \* model_classification._current_prompt
    _current_criteria,  \* model_classification._current_criteria
    file,               \* the record at PROMPT_FILE_PATH
    pc,                 \* position of the request being served
    req,                \* the ClassifyRequest being served
    original_criteria,  \* app.py line 34
    original_prompt,    \* app.py line 35
    profile_data,       \* classify_profiles: the items
    quick_results,      \* classify_profiles: username -> verdict
    unsure_bios,
    unsure_indices,
    prompt,             \* classify_profiles line 177
    request_input,      \* the "input" of request_kwargs
    outcome,            \* how client.responses.create ended
    resp,               \* the response it returned
    flags,
    results,            \* the list classify_profiles returns
    response,           \* what the last handler answered
    remote_calls,       \* history: calls of client.responses.create in this request
    entry_criteria,     \* history: _current_criteria when the request arrived
    entry_prompt,       \* history: _current_prompt when the request arrived
    prior_override,     \* history: the store as the last finished override request found it
    boot,               \* history: how the process started
    last_update,        \* history: the last update or reset of this process
    inflight,           \* requests received whose handler has not begun
    req_overlap         \* history: the update that completed while req was in flight

storeVars == <<_current_prompt, _current_criteria, file>>
handlerVars == <<req, original_criteria, original_prompt>>
pipelineVars == <<profile_data, quick_results, unsure_bios, unsure_indices,
                  prompt, request_input, outcome, resp, flags, results>>
historyVars == <<remote_calls, entry_criteria, entry_prompt, prior_override,
                 boot, last_update>>

serverVars == <<inflight, req_overlap>>

vars == <<storeVars, pc, handlerVars, pipelineVars, response, historyVars, serverVars>>


\* get_classification_prompt and get_editable_criteria, lines 91-97
get_classification_prompt == _current_prompt

get_editable_criteria == _current_criteria

(***************************************************************************)
(* Values of the history variables                                         *)
(***************************************************************************)
NoUpdate == [valid |-> FALSE, x |-> "", saved |-> FALSE]
NoOverride == [valid |-> FALSE, criteria |-> "", prompt |-> "", override |-> "",
               overlap |-> NoUpdate]
NoAnswer == [status |-> 0, results |-> <<>>, prompt |-> "", criteria |-> None]

\* boot.fresh: no update or reset ran since the process started, so the
\* record is the one the start read; rd1 and rd2 are the outcomes of its
\* two reads; after is the update that preceded the restart, if any, kept
\* until the first request is served
BootRecord(rd1, rd2, upd) ==
    [fresh |-> TRUE, rd1 |-> rd1, rd2 |-> rd2, after |-> upd]

StaleBoot == [fresh |-> FALSE, rd1 |-> "ok", rd2 |-> "ok", after |-> NoUpdate]

\* a read is attempted only when the file exists
ReadsOf(f) == IF f.kind = "missing" THEN {"ok"} ELSE ReadOutcomes

(***************************************************************************)
(* Process start: the module-level load, lines 81-89                       *)
(***************************************************************************)
IdleLocals ==
    /\ pc = "idle"
    /\ req = NoRequest
    /\ original_criteria = None
    /\ original_prompt = None
    /\ profile_data = <<>>
    /\ quick_results = EmptyDict
    /\ unsure_bios = <<>>
    /\ unsure_indices = <<>>
    /\ prompt = None
    /\ request_input = None
    /\ outcome = "none"
    /\ resp = NoResponse
    /\ flags = <<>>
    /\ results = <<>>

Started(f, rd1, rd2, upd) ==
    /\ file = f
    /\ _current_prompt = _load_prompt_from_file(f, rd1)
    /\ _current_criteria = _load_criteria_from_file(f, rd2)
    /\ IdleLocals
    /\ response = NoAnswer
    /\ remote_calls = 0
    /\ entry_criteria = None
    /\ entry_prompt = None
    /\ prior_override = NoOverride
    /\ boot = BootRecord(rd1, rd2, upd)
    /\ last_update = NoUpdate
    /\ inflight = {}
    /\ req_overlap = NoUpdate

\* a fresh installation: no persisted record
Init == Started(MissingFile, "ok", "ok", NoUpdate)

(***************************************************************************)
(* The handlers of app.py are coroutines (async def) that never await:     *)
(* classify_profiles and its remote call at line 202 are synchronous, so   *)
(* the event loop runs each handler from its first line to its return      *)
(* before it begins another.                                               *)
(***************************************************************************)
\* an event loop that takes up other handlers while a /classify call waits
\* for the remote capability, as it would were the remote call awaited
EventLoopFree_DuringRemoteCall == pc \in {"idle", "awaiting"}

\* the event loop may begin a handler: none is running
EventLoopFree == pc = "idle"

(***************************************************************************)
(* POST /classify, app.py lines 27-46, and classify_profiles               *)
(***************************************************************************)
\* a handler that installs the override through
\* update_classification_prompt, which persists it
Classify_Persisting(r) ==
    /\ EventLoopFree
    /\ req' = r
    /\ profile_data' = Payload(r.bios)
    /\ entry_criteria' = _current_criteria
    /\ entry_prompt' = _current_prompt
    /\ IF UsesOverride(r)
       THEN /\ original_criteria' = _current_criteria
            /\ original_prompt' = _current_prompt
            /\ _current_criteria' = r.criteria
            /\ _current_prompt' = _build_full_prompt(r.criteria)
            /\ file' = _save_criteria_to_file(file, r.criteria, "ok").file
       ELSE UNCHANGED <<original_criteria, original_prompt,
                        _current_criteria, _current_prompt, file>>
    /\ remote_calls' = 0
    /\ response' = NoAnswer
    /\ boot' = [boot EXCEPT !.after = NoUpdate]
    /\ pc' = "stage1"
    /\ UNCHANGED <<quick_results, unsure_bios, unsure_indices, prompt,
                   request_input, outcome, resp, flags, results,
                   prior_override, last_update>>

\* lines 28-38 (or 44): build the payload, install the override
Classify(r) ==
    /\ EventLoopFree
    /\ req' = r
    /\ profile_data' = Payload(r.bios)
    /\ entry_criteria' = _current_criteria
    /\ entry_prompt' = _current_prompt
    /\ IF UsesOverride(r)
       THEN /\ original_criteria' = _current_criteria
            /\ original_prompt' = _current_prompt
            /\ _current_criteria' = r.criteria
            /\ _current_prompt' = _build_full_prompt(r.criteria)
       ELSE UNCHANGED <<original_criteria, original_prompt,
                        _current_criteria, _current_prompt>>
    /\ remote_calls' = 0
    /\ response' = NoAnswer
    /\ boot' = [boot EXCEPT !.after = NoUpdate]
    /\ pc' = "stage1"
    /\ UNCHANGED <<file, quick_results, unsure_bios, unsure_indices, prompt,
                   request_input, outcome, resp, flags, results,
                   prior_override, last_update>>

\* classify_profiles lines 148-173
Stage1 ==
    /\ pc = "stage1"
    /\ LET acc == Stage1Loop(profile_data, 0, EmptyStage1)
       IN  /\ quick_results' = acc.quick_results
           /\ unsure_bios' = acc.unsure_bios
           /\ unsure_indices' = acc.unsure_indices
           /\ pc' = IF Stage2Needed(acc.unsure_bios) THEN "request" ELSE "attach"
    /\ UNCHANGED <<storeVars, handlerVars, profile_data, prompt, request_input,
                   outcome, resp, flags, results, response, historyVars, serverVars>>

\* lines 177-202: read the live instruction, build and send the request
SendRequest ==
    /\ pc = "request"
    /\ prompt' = _current_prompt
    /\ request_input' = BuildInput(_current_prompt, unsure_bios)
    /\ remote_calls' = remote_calls + 1
    /\ pc' = "awaiting"
    /\ UNCHANGED <<storeVars, handlerVars, profile_data, quick_results,
                   unsure_bios, unsure_indices, outcome, resp, flags, results,
                   response, entry_criteria, entry_prompt, prior_override,
                   boot, last_update, serverVars>>

\* line 202 returns r; lines 203-232 parse it
RemoteReturns(r) ==
    /\ pc = "awaiting"
    /\ outcome' = "returned"
    /\ resp' = r
    /\ flags' = ParseFlags(r, Len(unsure_bios))
    /\ pc' = "update"
    /\ UNCHANGED <<storeVars, handlerVars, profile_data, quick_results,
                   unsure_bios, unsure_indices, prompt, request_input, results,
                   response, historyVars, serverVars>>

\* a call without the try/except of lines 179 and 234: the exception leaves
\* classify_profiles
RemoteRaises_Uncaught ==
    /\ pc = "awaiting"
    /\ outcome' = "exception"
    /\ pc' = "raising"
    /\ UNCHANGED <<storeVars, handlerVars, profile_data, quick_results,
                   unsure_bios, unsure_indices, prompt, request_input, resp,
                   flags, results, response, historyVars, serverVars>>

\* an except clause that sends the request again
RemoteRaises_Retry ==
    /\ pc = "awaiting"
    /\ outcome' = "exception"
    /\ pc' = "request"
    /\ UNCHANGED <<storeVars, handlerVars, profile_data, quick_results,
                   unsure_bios, unsure_indices, prompt, request_input, resp,
                   flags, results, response, historyVars, serverVars>>

\* line 202 raises an Exception (API error, timeout); lines 234-236
RemoteRaises ==
    /\ pc = "awaiting"
    /\ outcome' = "exception"
    /\ flags' = FailedFlags(Len(unsure_bios))
    /\ pc' = "update"
    /\ UNCHANGED <<storeVars, handlerVars, profile_data, quick_results,
                   unsure_bios, unsure_indices, prompt, request_input, resp,
                   results, response, historyVars, serverVars>>

\* the blocking call is interrupted by a BaseException (KeyboardInterrupt,
\* SystemExit), which `except Exception` does not catch
Interrupted ==
    /\ pc = "awaiting"
    /\ outcome' = "interrupt"
    /\ pc' = "raising"
    /\ UNCHANGED <<storeVars, handlerVars, profile_data, quick_results,
                   unsure_bios, unsure_indices, prompt, request_input, resp,
                   flags, results, response, historyVars, serverVars>>

\* lines 238-242
UpdateResults ==
    /\ pc = "update"
    /\ quick_results' = UpdateLoop(profile_data, unsure_indices, flags, 0, quick_results)
    /\ pc' = "attach"
    /\ UNCHANGED <<storeVars, handlerVars, profile_data, unsure_bios,
                   unsure_indices, prompt, request_input, outcome, resp, flags,
                   results, response, historyVars, serverVars>>

\* lines 244-249
Return ==
    /\ pc = "attach"
    /\ profile_data' = AttachFlags(profile_data, quick_results)
    /\ results' = YesUsernames(profile_data')
    /\ pc' = "returned"
    /\ UNCHANGED <<storeVars, handlerVars, quick_results, unsure_bios,
                   unsure_indices, prompt, request_input, outcome, resp, flags,
                   response, historyVars, serverVars>>

\* a finally block that restores the criteria and forgets the prompt
RestoredStore_CriteriaOnly(overriding, cur_criteria, cur_prompt, orig_criteria, orig_prompt) ==
    IF overriding
    THEN [criteria |-> orig_criteria, prompt |-> cur_prompt]
    ELSE [criteria |-> cur_criteria, prompt |-> cur_prompt]

\* app.py lines 40-42: what the finally block leaves in the store
RestoredStore(overriding, cur_criteria, cur_prompt, orig_criteria, orig_prompt) ==
    IF overriding
    THEN [criteria |-> orig_criteria, prompt |-> orig_prompt]
    ELSE [criteria |-> cur_criteria, prompt |-> cur_prompt]

\* app.py lines 40-46: restore, then answer (or let the exception out)
ClassifyEnd ==
    /\ pc \in {"returned", "raising"}
    /\ LET st == RestoredStore(UsesOverride(req), _current_criteria, _current_prompt,
                               original_criteria, original_prompt)
       IN  /\ _current_criteria' = st.criteria
           /\ _current_prompt' = st.prompt
    /\ response' = IF pc = "returned"
                   THEN [status |-> 200, results |-> results, prompt |-> "", criteria |-> None]
                   ELSE [status |-> 500, results |-> <<>>, prompt |-> "", criteria |-> None]
    /\ prior_override' = IF UsesOverride(req)
                         THEN [valid |-> TRUE, criteria |-> entry_criteria,
                               prompt |-> entry_prompt, override |-> req.criteria,
                               overlap |-> req_overlap]
                         ELSE prior_override
    /\ pc' = "idle"
    /\ req' = NoRequest
    /\ original_criteria' = None
    /\ original_prompt' = None
    /\ profile_data' = <<>>
    /\ quick_results' = EmptyDict
    /\ unsure_bios' = <<>>
    /\ unsure_indices' = <<>>
    /\ prompt' = None
    /\ request_input' = None
    /\ outcome' = "none"
    /\ resp' = NoResponse
    /\ flags' = <<>>
    /\ results' = <<>>
    /\ remote_calls' = 0
    /\ entry_criteria' = None
    /\ entry_prompt' = None
    /\ req_overlap' = NoUpdate
    /\ UNCHANGED <<file, boot, last_update, inflight>>

(***************************************************************************)
(* PUT /prompt, POST /prompt/reset and the restart of the process          *)
(***************************************************************************)
\* update_classification_prompt, lines 99-108, with the outcome io of the
\* file system during _save_criteria_to_file
update_classification_prompt(new_criteria, io) ==
    /\ EventLoopFree
    /\ _current_criteria' = new_criteria
    /\ _current_prompt' = _build_full_prompt(new_criteria)
    /\ LET sv == _save_criteria_to_file(file, new_criteria, io)
       IN  /\ file' = sv.file
           /\ last_update' = [valid |-> TRUE, x |-> new_criteria, saved |-> sv.saved]
    /\ response' = [status |-> 200, results |-> <<>>, prompt |-> _current_prompt',
                    criteria |-> None]
    /\ prior_override' = NoOverride
    /\ boot' = StaleBoot
    /\ UNCHANGED <<pc, handlerVars, pipelineVars, remote_calls, entry_criteria,
                   entry_prompt>>

\* a reset that clears the criteria instead of restoring the default
reset_to_default_prompt_Empty(io) ==
    update_classification_prompt("", io)

\* reset_to_default_prompt, lines 110-112
reset_to_default_prompt(io) ==
    update_classification_prompt(DEFAULT_CRITERIA_TEXT, io)

\* the process stops, between two requests or while a request waits for
\* the remote capability, and starts again: lines 81-89 run on the record
\* as it is, everything in memory is lost
Restart(rd1, rd2) ==
    /\ pc \in {"idle", "awaiting"}
    /\ _current_prompt' = _load_prompt_from_file(file, rd1)
    /\ _current_criteria' = _load_criteria_from_file(file, rd2)
    /\ pc' = "idle"
    /\ req' = NoRequest
    /\ original_criteria' = None
    /\ original_prompt' = None
    /\ profile_data' = <<>>
    /\ quick_results' = EmptyDict
    /\ unsure_bios' = <<>>
    /\ unsure_indices' = <<>>
    /\ prompt' = None
    /\ request_input' = None
    /\ outcome' = "none"
    /\ resp' = NoResponse
    /\ flags' = <<>>
    /\ results' = <<>>
    /\ response' = NoAnswer
    /\ remote_calls' = 0
    /\ entry_criteria' = None
    /\ entry_prompt' = None
    /\ prior_override' = NoOverride
    /\ boot' = BootRecord(rd1, rd2, last_update)
    /\ last_update' = NoUpdate
    /\ inflight' = {}
    /\ req_overlap' = NoUpdate
    /\ UNCHANGED file

(***************************************************************************)
(* Inputs of the store operations                                          *)
(***************************************************************************)
\* criteria with characters json escapes: quotes, a backslash, newline, tab
QuotedCriteria == "Say \"yes\" for pets.\n\tA \\n is no newline."

\* criteria the utf-8 file cannot hold
UnencodableCriteria == "pets " \o LONE_SURROGATE

CriteriaInputs == {"", QuotedCriteria, UnencodableCriteria}

\* the full instruction text an older version persisted
LegacyPrompt == "Reply yes or no for each bio.\n"

Member(k, v) == [x \in {k} |-> json_dump_str(v)]

\* records the process may find when it starts
InitialFiles ==
    {MissingFile, InvalidFile, ArrayFile,
     _save_criteria_to_file(MissingFile, QuotedCriteria, "ok").file,
     ObjectFile(Member("prompt", LegacyPrompt)),
     ObjectFile(Member("prompt", LegacyPrompt) @@ Member("criteria", "")),
     ObjectFile(Member("last_updated", LAST_UPDATED))}

OverrideCriteria == "Say yes for dog owners."

\* /classify requests of the store scenarios: a batch stage 1 settles and
\* a batch that needs the remote capability, without criteria, with blank
\* criteria and with an override
StoreRequests ==
    {[bios |-> b, criteria |-> c] :
        b \in {<<ExampleBios[1]>>, <<ExampleBios[2]>>},
        c \in {None, "  ", OverrideCriteria}}

StoreResponses == TextResponses({"yes"})

InitStore ==
    \E f \in InitialFiles : \E rd1, rd2 \in ReadsOf(f) :
        Started(f, rd1, rd2, NoUpdate)

Responses == TextResponses(ReplyTexts) \cup ItemResponses

Next ==
    \/ \E r \in PipelineRequests : Classify(r) /\ UNCHANGED serverVars
    \/ Stage1
    \/ SendRequest
    \/ \E r \in Responses : RemoteReturns(r)
    \/ RemoteRaises
    \/ Interrupted
    \/ UpdateResults
    \/ Return
    \/ ClassifyEnd

\* the classification pipeline on a fresh installation
Spec == Init /\ [][Next]_vars

NextStore ==
    \/ \E r \in StoreRequests : Classify(r) /\ UNCHANGED serverVars
    \/ Stage1
    \/ SendRequest
    \/ \E r \in StoreResponses : RemoteReturns(r)
    \/ RemoteRaises
    \/ Interrupted
    \/ UpdateResults
    \/ Return
    \/ ClassifyEnd
    \/ \E x \in CriteriaInputs : \E io \in SaveOutcomes :
          update_classification_prompt(x, io) /\ UNCHANGED serverVars
    \/ \E io \in SaveOutcomes : reset_to_default_prompt(io) /\ UNCHANGED serverVars
    \/ \E rd1, rd2 \in ReadsOf(file) : Restart(rd1, rd2)

\* the Instruction Store under requests served one at a time
SpecStore == InitStore /\ [][NextStore]_vars

(***************************************************************************)
(* The server: clients send requests at any time; the event loop begins    *)
(* the handler of one request in flight when no handler is running         *)
(***************************************************************************)
\* a request in flight; overlap is history: the last update or reset that
\* completed since the server received the request
Message(kind, r, x) == [kind |-> kind, req |-> r, criteria |-> x, overlap |-> NoUpdate]

\* POST /classify with a batch that needs the remote capability, without
\* and with override
ServerRequests ==
    {[bios |-> <<ExampleBios[2]>>, criteria |-> c] : c \in {None, OverrideCriteria}}

\* PUT /prompt bodies
ServerCriteria == {QuotedCriteria}

\* records the server may find when it starts
ServerFiles == {MissingFile, _save_criteria_to_file(MissingFile, "", "ok").file}

InitServer ==
    \E f \in ServerFiles : \E rd1, rd2 \in ReadsOf(f) :
        Started(f, rd1, rd2, NoUpdate)

ServerMessages ==
    {Message("classify", r, None) : r \in ServerRequests}
    \cup {Message("update", NoRequest, x) : x \in ServerCriteria}
    \cup {Message(k, NoRequest, None) : k \in {"reset", "get_criteria", "get_prompt"}}

\* a client sends a request
Receive(m) ==
    /\ Cardinality(inflight) < MaxInFlight
    /\ m \notin inflight
    /\ inflight' = inflight \cup {m}
    /\ UNCHANGED <<storeVars, pc, handlerVars, pipelineVars, response,
                   historyVars, req_overlap>>

\* history: the update upd completed while the requests of S were in flight
Overlapped(S, upd) ==
    {IF m.kind = "classify" THEN [m EXCEPT !.overlap = upd] ELSE m : m \in S}

\* POST /classify: the handler begins (app.py line 28)
ServeClassify ==
    \E m \in inflight :
        /\ m.kind = "classify"
        /\ Classify(m.req)
        /\ inflight' = inflight \ {m}
        /\ req_overlap' = m.overlap

\* PUT /prompt, app.py lines 58-62
update_prompt ==
    \E m \in inflight : \E io \in SaveOutcomes :
        /\ m.kind = "update"
        /\ update_classification_prompt(m.criteria, io)
        /\ inflight' = Overlapped(inflight \ {m}, last_update')
        /\ req_overlap' = IF pc = "idle" THEN req_overlap ELSE last_update'

\* POST /prompt/reset, app.py lines 64-68
reset_prompt ==
    \E m \in inflight : \E io \in SaveOutcomes :
        /\ m.kind = "reset"
        /\ reset_to_default_prompt(io)
        /\ inflight' = Overlapped(inflight \ {m}, last_update')
        /\ req_overlap' = IF pc = "idle" THEN req_overlap ELSE last_update'

\* GET /criteria, app.py lines 54-56
get_criteria ==
    \E m \in inflight :
        /\ m.kind = "get_criteria"
        /\ EventLoopFree
        /\ response' = [status |-> 200, results |-> <<>>, prompt |-> "",
                        criteria |-> get_editable_criteria]
        /\ inflight' = inflight \ {m}
        /\ UNCHANGED <<storeVars, pc, handlerVars, pipelineVars, historyVars,
                       req_overlap>>

\* GET /prompt, app.py lines 48-52
get_prompt ==
    \E m \in inflight :
        /\ m.kind = "get_prompt"
        /\ EventLoopFree
        /\ response' = [status |-> 200, results |-> <<>>,
                        prompt |-> get_classification_prompt, criteria |-> None]
        /\ inflight' = inflight \ {m}
        /\ UNCHANGED <<storeVars, pc, handlerVars, pipelineVars, historyVars,
                       req_overlap>>

NextServer ==
    \/ \E m \in ServerMessages : Receive(m)
    \/ ServeClassify
    \/ Stage1
    \/ SendRequest
    \/ \E r \in StoreResponses : RemoteReturns(r)
    \/ RemoteRaises
    \/ Interrupted
    \/ UpdateResults
    \/ Return
    \/ ClassifyEnd
    \/ update_prompt
    \/ reset_prompt
    \/ get_criteria
    \/ get_prompt

\* one run of the server process under concurrent requests
SpecServer == InitServer /\ [][NextServer]_vars

(***************************************************************************)
(* Vocabulary of the properties                                            *)
(***************************************************************************)
Items == 1..Len(profile_data)

Username(i) == profile_data[i].username

Verdict(i) == profile_data[i].is_christian

\* the identifiers are unique within the batch
UniqueIds == \A i, j \in Items : Username(i) = Username(j) => i = j

\* the Lexical Matcher on each bio of the model
LexicalMatch == [b \in BioSet |-> has_christian_keywords(strip(b))]

\* the items the Lexical Matcher resolves in stage 1
MatchedItems == {i \in Items : LexicalMatch[profile_data[i].bio]}

\* the items queued for stage 2, and the k-th of them
UnresolvedItems == {unsure_indices[k] + 1 : k \in 1..Len(unsure_indices)}

UnresolvedItem(k) == unsure_indices[k] + 1

\* the k-th smallest element of a set of item positions
KthOf(S, k) == CHOOSE i \in S : Cardinality({j \in S : j <= i}) = k

\* the usernames of the items of S, in input order
InInputOrder(S) == [k \in 1..Cardinality(S) |-> Username(KthOf(S, k))]

\* the whitespace-separated tokens of the text the remote capability returned
ReplyTokens == split(ExtractOutputText(resp))

\* a token that, trimmed and lower-cased, starts with 'y'
IsAffirmative(token) ==
    LET t == lower(strip(token))
    IN  Len(t) >= 1 /\ Chr(t, 1) = "y"

\* stage 1 is over for the request being served
AfterStage1 == pc \in {"request", "awaiting", "update", "raising", "attach", "returned"}

(***************************************************************************)
(* C1: when classify_profiles returns, whatever the remote capability did  *)
(* (any reply text, no text, an exception), every item of a batch with     *)
(* unique identifiers carries one verdict out of yes / no, and the         *)
(* returned list is exactly the identifiers of the yes items, each once,   *)
(* in input order.                                                         *)
(***************************************************************************)
C1_VerdictsAndOutput ==
    (pc = "returned" /\ UniqueIds) =>
        /\ \A i \in Items : Verdict(i) \in {"yes", "no"}
        /\ results = InInputOrder({i \in Items : Verdict(i) = "yes"})
        /\ \A k, l \in 1..Len(results) : results[k] = results[l] => k = l
        /\ \A k \in 1..Len(results) : \E i \in Items : results[k] = Username(i)

\* a returned three-item batch with two yes items around a no item
C1_Witness ==
    /\ pc = "returned"
    /\ outcome = "returned"
    /\ Len(profile_data) = 3
    /\ Verdict(1) = "yes" /\ Verdict(2) = "no" /\ Verdict(3) = "yes"
    /\ results = <<"0", "2">>

(***************************************************************************)
(* C2: the example batch (a Scripture reference, "just a dog mom", the     *)
(* cross emoji) with a remote capability that answers "no" leaves "just a  *)
(* dog mom" as the only unresolved item and returns identifiers 0 and 2.   *)
(***************************************************************************)
C2_ExampleScenario ==
    (/\ pc = "returned"
     /\ req.bios = ExampleBios
     /\ outcome = "returned"
     /\ resp = [output_text |-> "no", output |-> <<>>]) =>
        /\ unsure_bios = <<"just a dog mom">>
        /\ results = <<"0", "2">>

(***************************************************************************)
(* C3: when the reply splits into a number of tokens different from the    *)
(* number of unresolved items, every unresolved item ends with verdict no, *)
(* whatever the tokens say, and no item is dropped.                        *)
(***************************************************************************)
C3_AllOrNothing ==
    (/\ pc = "returned"
     /\ outcome = "returned"
     /\ Len(ReplyTokens) # Len(unsure_bios)) =>
        /\ \A i \in UnresolvedItems : Verdict(i) = "no"
        /\ \A i \in UnresolvedItems : Username(i) \notin {results[k] : k \in 1..Len(results)}
        /\ Len(profile_data) = Len(req.bios)

\* two unresolved items and a reply of one affirmative token
C3_Witness ==
    /\ pc = "returned"
    /\ outcome = "returned"
    /\ Len(unsure_bios) = 2
    /\ Len(ReplyTokens) = 1
    /\ IsAffirmative(ReplyTokens[1])

(***************************************************************************)
(* C4: when the remote call raises (an API error, a timeout) or returns no *)
(* content, classify_profiles does not raise and returns the stage-1-only  *)
(* result: the identifiers of the matched items in input order, every      *)
(* unresolved item at no.                                                  *)
(***************************************************************************)
RemoteFailed ==
    \/ outcome = "exception"
    \/ outcome = "returned" /\ ExtractOutputText(resp) = ""

C4_RemoteFailure ==
    RemoteFailed =>
        /\ pc \in {"update", "attach", "returned"}
        /\ pc = "returned" =>
             /\ results = InInputOrder(MatchedItems)
             /\ \A i \in UnresolvedItems : Verdict(i) = "no"

\* a returned batch with a matched and an unresolved item after an exception
C4_Witness ==
    /\ pc = "returned"
    /\ outcome = "exception"
    /\ results # <<>>
    /\ unsure_bios # <<>>

(***************************************************************************)
(* C5: an item stage 1 resolves to yes stays yes: from the end of stage 1  *)
(* on its entry is yes, and at the return its verdict is yes and its       *)
(* identifier is in the output, whatever the reply says about the others;  *)
(* and a batch whose items all match never invokes the remote capability.  *)
(***************************************************************************)
C5_Stage1Terminal ==
    AfterStage1 =>
        /\ \A i \in MatchedItems :
             /\ quick_results[Username(i)] = "yes"
             /\ pc = "returned" =>
                  /\ Verdict(i) = "yes"
                  /\ Username(i) \in {results[k] : k \in 1..Len(results)}
        /\ MatchedItems = Items => remote_calls = 0

\* a matched item returned next to an item the reply turned to yes
C5_Witness ==
    /\ pc = "returned"
    /\ outcome = "returned"
    /\ MatchedItems # {}
    /\ \E i \in UnresolvedItems : Verdict(i) = "yes"

(***************************************************************************)
(* C6: one classify_profiles call invokes the remote capability once when  *)
(* the unresolved list is not empty, however long it is, and never twice:  *)
(* not after an exception, an empty reply or a token-count mismatch.       *)
(***************************************************************************)
C6_SingleRemoteCall ==
    /\ remote_calls <= 1
    /\ pc \in {"awaiting", "update", "raising"} => remote_calls = 1
    /\ pc \in {"attach", "returned"} =>
         remote_calls = (IF unsure_bios # <<>> THEN 1 ELSE 0)

\* a call that returned after an exception with three unresolved items
C6_Witness ==
    /\ pc = "returned"
    /\ outcome = "exception"
    /\ Len(unsure_bios) >= 2
    /\ remote_calls = 1

(***************************************************************************)
(* C7: stage-2 verdicts are normalised: with as many tokens as unresolved  *)
(* items, the k-th unresolved item ends yes exactly when its token,        *)
(* trimmed and lower-cased, starts with 'y', and no otherwise; no flag and *)
(* no stored verdict is ever anything but yes / no.                        *)
(***************************************************************************)
C7_Normalized ==
    /\ \A k \in 1..Len(flags) : flags[k] \in {"yes", "no"}
    /\ \A u \in DOMAIN quick_results : quick_results[u] \in {"yes", "no"}
    /\ (/\ pc = "returned"
        /\ outcome = "returned"
        /\ Len(ReplyTokens) = Len(unsure_bios)) =>
          \A k \in 1..Len(unsure_bios) :
              Verdict(UnresolvedItem(k)) =
                  (IF IsAffirmative(ReplyTokens[k]) THEN "yes" ELSE "no")

\* two unresolved items: an upper-case affirmative token and another token
C7_Witness ==
    /\ pc = "returned"
    /\ outcome = "returned"
    /\ Len(unsure_bios) = 2
    /\ ReplyTokens = <<"Y", "n">>
    /\ Verdict(UnresolvedItem(1)) = "yes"
    /\ Verdict(UnresolvedItem(2)) = "no"

\* the items the Lexical Matcher does not resolve, by the matcher alone
UnmatchedItems == Items \ MatchedItems

\* the text of each bio of the model as stage 2 is to see it
CleanedBio == [b \in BioSet |-> strip(re_sub_nonword(strip(b)))]

(***************************************************************************)
(* C17: the unresolved items are queued in original input order, each      *)
(* with its own bio; and when the reply has exactly as many tokens as      *)
(* there are unresolved items, the final verdict of the k-th unmatched     *)
(* item in input order is the normalized k-th token, recorded under that   *)
(* item's own identifier, while every matched item in between stays yes.   *)
(***************************************************************************)
C17_PositionalDemux ==
    /\ AfterStage1 =>
         /\ Len(unsure_indices) = Cardinality(UnmatchedItems)
         /\ Len(unsure_bios) = Len(unsure_indices)
         /\ \A k \in 1..Len(unsure_indices) :
              /\ unsure_indices[k] + 1 = KthOf(UnmatchedItems, k)
              /\ unsure_bios[k] = CleanedBio[profile_data[KthOf(UnmatchedItems, k)].bio]
    /\ (/\ pc = "returned"
        /\ outcome = "returned"
        /\ Len(ReplyTokens) = Cardinality(UnmatchedItems)) =>
         /\ \A k \in 1..Cardinality(UnmatchedItems) :
              LET i == KthOf(UnmatchedItems, k)
                  v == IF IsAffirmative(ReplyTokens[k]) THEN "yes" ELSE "no"
              IN  /\ Verdict(i) = v
                  /\ quick_results[Username(i)] = v
                  /\ (v = "yes") <=> (\E n \in 1..Len(results) : results[n] = Username(i))
         /\ \A i \in MatchedItems : Verdict(i) = "yes"

\* a matched item between two unresolved ones; the reply says no, then yes
C17_Witness ==
    /\ pc = "returned"
    /\ outcome = "returned"
    /\ Len(profile_data) = 3
    /\ MatchedItems = {2}
    /\ ReplyTokens = <<"n", "Y">>
    /\ Verdict(1) = "no"
    /\ Verdict(3) = "yes"
    /\ results = <<"1", "2">>

(***************************************************************************)
(* Vocabulary of the store properties                                      *)
(***************************************************************************)
\* the full instruction the store derives from a criteria text: the fixed
\* header, the criteria, and (after a newline) the fixed footer
FullInstruction(criteria_text) ==
    DEFAULT_PROMPT_HEADER \o criteria_text \o "\n" \o DEFAULT_PROMPT_FOOTER

\* a legacy record: a "prompt" key and no "criteria" key
LegacyOnly(f) ==
    f.kind = "object" /\ "prompt" \in DOMAIN f.members /\ "criteria" \notin DOMAIN f.members

\* the request being served has sent its instruction to the remote capability
HasSent == pc \in {"awaiting", "update", "raising", "attach", "returned"} /\ prompt # None

C9_OverrideScoped ==
    prior_override.valid =>
        /\ (pc = "idle" \/ ~UsesOverride(req)) =>
             /\ _current_criteria = prior_override.criteria
             /\ _current_prompt = prior_override.prompt
        /\ (HasSent /\ ~UsesOverride(req)) =>
             /\ prompt = prior_override.prompt
             /\ request_input = prior_override.prompt \o "\n\n" \o BuildPayload(unsure_bios)
             /\ prior_override.criteria # prior_override.override =>
                  prompt # FullInstruction(prior_override.override)

\* a request without override waits for the remote capability after an
\* override request has finished
C9_Witness ==
    /\ prior_override.valid
    /\ prior_override.override = OverrideCriteria
    /\ pc = "awaiting"
    /\ req.criteria = None

C11_FailedSaveKeepsRecord ==
    [][(/\ last_update' # last_update
        /\ last_update'.valid
        /\ ~last_update'.saved) =>
            /\ response'.status = 200
            /\ response'.prompt = FullInstruction(last_update'.x)
            /\ get_editable_criteria' = last_update'.x
            /\ file' = file]_vars

\* the record has a "criteria" key / a "prompt" key
HasKey(f, k) == f.kind = "object" /\ k \in DOMAIN f.members

\* the process has just started and serves no request
JustStarted == boot.fresh /\ pc = "idle"

\* both start-up reads of an existing record failed
Unreadable == file.kind # "missing" /\ boot.rd1 = "error" /\ boot.rd2 = "error"

\* the store holds the built-in default
StoreIsDefault ==
    /\ get_editable_criteria = DEFAULT_CRITERIA_TEXT
    /\ get_classification_prompt = FullInstruction(DEFAULT_CRITERIA_TEXT)

(***************************************************************************)
(* C12 as stated: after a start from a record that is missing, is not      *)
(* valid JSON, cannot be read, or is valid JSON without a criteria field,  *)
(* the live criteria and the live full instruction are those of the        *)
(* built-in default criteria.                                              *)
(***************************************************************************)
C12_StartupFallbackAlways ==
    (/\ JustStarted
     /\ \/ file.kind \in {"missing", "invalid"}
        \/ Unreadable
        \/ ~HasKey(file, "criteria")) => StoreIsDefault

(***************************************************************************)
(* C12 as amended: after a start from a record that is missing, is not     *)
(* valid JSON, cannot be read, or is valid JSON with neither a "criteria"  *)
(* key nor a "prompt" key, the live criteria and the live full instruction *)
(* are those of the built-in default criteria.                             *)
(***************************************************************************)
C12_StartupFallback ==
    (/\ JustStarted
     /\ \/ file.kind \in {"missing", "invalid"}
        \/ Unreadable
        \/ (~HasKey(file, "criteria") /\ ~HasKey(file, "prompt"))) => StoreIsDefault

\* a start from a record that is not valid JSON
C12_Witness ==
    /\ JustStarted
    /\ file.kind = "invalid"
    /\ StoreIsDefault

\* the record update_classification_prompt(DEFAULT_CRITERIA_TEXT) persists
DefaultRecord(f) ==
    /\ f.kind = "object"
    /\ DOMAIN f.members = {"criteria", "last_updated"}
    /\ json_load_str(f.members["criteria"]) = DEFAULT_CRITERIA_TEXT

(***************************************************************************)
(* C13: from any store state, reset_to_default_prompt is a step of         *)
(* update_classification_prompt(DEFAULT_CRITERIA_TEXT): it leaves the      *)
(* built-in default as live criteria, the instruction built from it as     *)
(* live instruction and as returned value, and the record that update      *)
(* leaves (the default's record when the write succeeds, the old record    *)
(* or a partial file when it fails).                                       *)
(***************************************************************************)
C13_ResetIsUpdateDefault ==
    [][(\E io \in SaveOutcomes : reset_to_default_prompt(io)) =>
          /\ get_editable_criteria' = DEFAULT_CRITERIA_TEXT
          /\ get_classification_prompt' = FullInstruction(DEFAULT_CRITERIA_TEXT)
          /\ response' = [status |-> 200, results |-> <<>>,
                          prompt |-> FullInstruction(DEFAULT_CRITERIA_TEXT),
                          criteria |-> None]
          /\ \/ DefaultRecord(file') /\ last_update'.saved
             \/ file' \in {file, InvalidFile} /\ ~last_update'.saved
          /\ \E io \in SaveOutcomes :
                update_classification_prompt(DEFAULT_CRITERIA_TEXT, io)]_vars

\* a reset that replaced other criteria, in memory and on disk
C13_Witness ==
    /\ last_update.valid
    /\ last_update.x = DEFAULT_CRITERIA_TEXT
    /\ last_update.saved
    /\ DefaultRecord(file)
    /\ get_editable_criteria = DEFAULT_CRITERIA_TEXT
    /\ pc = "idle"

ClassifyStep == pc' # "idle" \/ pc \in {"returned", "raising"}

(***************************************************************************)
(* C19: no step of a /classify call, with or without override, returning   *)
(* or raising, creates or changes the persisted record (the only thing a   *)
(* restart loads from, during or after the call as before it); and no step *)
(* of a call without override changes the live criteria or the live        *)
(* instruction.                                                            *)
(***************************************************************************)
C19_ClassifyWritesNothing ==
    [][ClassifyStep =>
          /\ file' = file
          /\ ~UsesOverride(IF pc = "idle" THEN req' ELSE req) =>
                /\ get_editable_criteria' = get_editable_criteria
                /\ get_classification_prompt' = get_classification_prompt]_vars

\* an override call has raised on an installation without a record
C19_Witness ==
    /\ pc = "idle"
    /\ prior_override.valid
    /\ response.status = 500
    /\ file = MissingFile
    /\ StoreIsDefault

(***************************************************************************)
(* Vocabulary of the server properties                                     *)
(***************************************************************************)
\* the store's own instruction: the one the last update or reset built or,
\* before any, the one the start loaded; no override enters it
StoreInstruction ==
    IF last_update.valid
    THEN FullInstruction(last_update.x)
    ELSE _load_prompt_from_file(file, boot.rd1)

\* the criteria the persisted record stands for (the default when there is
\* no record or no criteria in it)
PersistedCriteria == _load_criteria_from_file(file, "ok")

\* the overrides of the other /classify calls: those in flight and the
\* last one that finished
OtherOverrides ==
    {m.req.criteria : m \in {x \in inflight : x.kind = "classify" /\ UsesOverride(x.req)}}
    \cup (IF prior_override.valid THEN {prior_override.override} ELSE {})

ReaderStep ==
    /\ response'.criteria # None
    /\ Cardinality(inflight') < Cardinality(inflight)

\* an update or reset has run and none is in flight or running
UpdatesCompleted ==
    /\ pc = "idle"
    /\ last_update.valid
    /\ \A m \in inflight : m.kind \notin {"update", "reset"}

\* the last update or reset wrote the record or, before any, the start
\* read the record
RecordInStep == IF last_update.valid THEN last_update.saved ELSE boot.rd2 = "ok"

OverrideEndsAfterUpdate ==
    /\ pc \in {"returned", "raising"}
    /\ pc' = "idle"
    /\ UsesOverride(req)
    /\ req_overlap.valid

====
